---- MODULE Spec2Model ----
(***************************************************************************)
(* A model of the NOVAURL short-link backend (src/backend/server.py).      *)
(*                                                                         *)
(* The state is the two MongoDB collections (db.urls, db.visitors), the    *)
(* outbound HTTP calls the process has made (geolocation GETs, webhook     *)
(* POSTs) and, for every request in flight, the position of its coroutine  *)
(* and its local variables.  A handler is cut at its awaits: one action is *)
(* one store operation or one outbound call together with the synchronous  *)
(* code that follows it up to the next one.  Requests run concurrently on  *)
(* the event loop, so the actions of different requests interleave freely. *)
(*                                                                         *)
(* Text is a sequence of one-character strings; an Optional value is a     *)
(* sequence of length 0 (None) or 1.                                       *)
(***************************************************************************)
EXTENDS Integers, Sequences, FiniteSets, TLC

\* ------------------------------------------------------------------ bounds

\* Three workloads are explored.  Under the concurrent one, ConcurrentWorkers
\* requests are in flight at a time, ConcurrentRequests in all: creations of
\* one form without upload whose first candidate code is the same, deletions,
\* and visits without proxy header whose outbound calls succeed.  Under the
\* sequential one, requests come one after the other, SequentialRequests in
\* all, with every operation, input and answer of the sets below.  Under the
\* unresponsive one, requests come one after the other as well, and the
\* geolocation service and the webhook endpoint never answer.
ConcurrentRequests == 4
ConcurrentWorkers == 2
SequentialRequests == 2

Workloads == { "concurrent", "sequential", "unresponsive" }

Procs == 1..ConcurrentWorkers

\* ---------------------------------------------------------- Optional values

None == << >>
Some(x) == << x >>
IsNone(o) == Len(o) = 0
Get(o) == o[1]

\* ------------------------------------------------------------- text helpers

StartsWith(s, prefix) ==
    /\ Len(s) >= Len(prefix)
    /\ SubSeq(s, 1, Len(prefix)) = prefix

\* A check that the name has an extension at all: the first character of the
\* suffix (the dot) occurs in it.
EndsWithDotOnly(s, suffix) == \E i \in 1..Len(s) : s[i] = suffix[1]

\* str.endswith
EndsWith(s, suffix) ==
    /\ Len(s) >= Len(suffix)
    /\ SubSeq(s, Len(s) - Len(suffix) + 1, Len(s)) = suffix

\* str.replace(old, new, 1): only the first occurrence is replaced.
RECURSIVE ReplaceFirst(_, _, _)
ReplaceFirst(s, old, new) ==
    IF Len(s) < Len(old) THEN s
    ELSE IF SubSeq(s, 1, Len(old)) = old
         THEN new \o SubSeq(s, Len(old) + 1, Len(s))
         ELSE << Head(s) >> \o ReplaceFirst(Tail(s), old, new)

\* str.replace(old, new) for a non-empty old: every non-overlapping occurrence,
\* found scanning from the left, is replaced.
RECURSIVE Replace(_, _, _)
Replace(s, old, new) ==
    IF Len(s) < Len(old) THEN s
    ELSE IF StartsWith(s, old)
         THEN new \o Replace(SubSeq(s, Len(old) + 1, Len(s)), old, new)
         ELSE << Head(s) >> \o Replace(Tail(s), old, new)

\* The number of non-overlapping occurrences of pat in s, scanning from the left.
RECURSIVE Occurrences(_, _)
Occurrences(s, pat) ==
    IF Len(s) < Len(pat) THEN 0
    ELSE IF StartsWith(s, pat)
         THEN 1 + Occurrences(SubSeq(s, Len(pat) + 1, Len(s)), pat)
         ELSE Occurrences(Tail(s), pat)

\* --------------------------------------------------------- program constants

\* generate_short_code(length=8)
DefaultCodeLength == 8
\* visitor_data.get('user_agent')[:100]
UserAgentFieldLimit == 100
\* db.urls.find().to_list(1000)
ListLimit == 1000
\* embed colours 0x7289DA and 0x00FF00
VisitEmbedColor == 7506394
CreateEmbedColor == 65280
\* os.environ.get('FRONTEND_DOMAIN', 'localhost:3000')
FrontendDomain == "localhost:3000"

\* '</body>'
BodyClose == << "<", "/", "b", "o", "d", "y", ">" >>

\* ------------------------------------------------------------------ inputs

\* string.ascii_letters + string.digits has 62 characters; the generator is
\* explored on the codes made of one repeated character of this sample.
SampleChars == { "a", "Z" }

\* POST /api/urls form fields (redirect_url, discord_webhook).
BasicForm ==
    [redirect_url |-> "https://www.google.com",
     discord_webhook |-> "https://discord.com/api/webhooks/test/webhook"]

AllForms ==
    { BasicForm,
      [redirect_url |-> "https://www.example.com",
       discord_webhook |-> "https://discord.com/api/webhooks/other/hook"] }

\* The byte that makes content.decode('utf-8') raise.
InvalidByte == "0xFF"

HtmlName == << "p", ".", "h", "t", "m", "l" >>
TxtName == << "t", "e", "s", "t", ".", "t", "x", "t" >>

OneMarkerMarkup == << "<html><body>Custom Loading Page" >> \o BodyClose \o << "</html>" >>
TwoMarkerMarkup == << "<body><!--" >> \o BodyClose \o << "-->" >> \o BodyClose
NoMarkerMarkup == << "<p>", "<", "/", "b", "o", ">" >>

\* The custom_html file part: None when the form carries none.
AllUploads ==
    { None,
      Some([filename |-> << >>, content |-> NoMarkerMarkup]),
      Some([filename |-> TxtName, content |-> << "This is not HTML" >>]),
      Some([filename |-> HtmlName, content |-> OneMarkerMarkup]),
      Some([filename |-> HtmlName, content |-> TwoMarkerMarkup]),
      Some([filename |-> HtmlName, content |-> NoMarkerMarkup]),
      Some([filename |-> HtmlName, content |-> << >>]),
      Some([filename |-> HtmlName, content |-> << "<p>", InvalidByte >>]) }

\* GET /{short_code}: the transport peer and the headers the handler reads.
AllVisitors ==
    { [peer |-> << "10.0.0.1" >>, xff |-> None, xrealip |-> None,
       user_agent |-> Some(<< "Mozilla/5.0" >>)],
      [peer |-> << "10.0.0.2" >>,
       xff |-> Some(<< " ", "203.0.113.7", ",", " ", "10.0.0.9" >>),
       xrealip |-> Some(<< "198.51.100.4" >>), user_agent |-> None],
      [peer |-> << "10.0.0.3" >>, xff |-> Some(<< "203.0.113.8" >>),
       xrealip |-> None,
       user_agent |-> Some([i \in 1..UserAgentFieldLimit + 1 |-> "M"])],
      [peer |-> << "10.0.0.4" >>, xff |-> None,
       xrealip |-> Some(<< "198.51.100.5" >>),
       user_agent |-> Some([i \in 1..UserAgentFieldLimit |-> "M"])] }

\* The JSON object http://ip-api.com/json/{ip} answers with.
GeoPayload ==
    [city |-> "Paris", regionName |-> "Ile-de-France", country |-> "France",
     isp |-> "ExampleNet"]

\* The JSON object it answers with, under status 200, for an address it has no
\* location for (a private or reserved one).
GeoFailPayload ==
    [status |-> "fail", message |-> "private range", query |-> "10.0.0.9"]
\* ----------------------------------------------------------- pure functions

\* string.ascii_letters, string.digits
ascii_letters ==
    << "a", "b", "c", "d", "e", "f", "g", "h", "i", "j", "k", "l", "m",
       "n", "o", "p", "q", "r", "s", "t", "u", "v", "w", "x", "y", "z",
       "A", "B", "C", "D", "E", "F", "G", "H", "I", "J", "K", "L", "M",
       "N", "O", "P", "Q", "R", "S", "T", "U", "V", "W", "X", "Y", "Z" >>
digits == << "0", "1", "2", "3", "4", "5", "6", "7", "8", "9" >>

\* chars = string.ascii_letters + string.digits
chars == ascii_letters \o digits

\* The generator with a range one short: range(length - 1).
generate_short_code_one_short(length) ==
    { [i \in 1..length - 1 |-> chars[k]] :
        k \in { n \in DOMAIN chars : chars[n] \in SampleChars } }

\* generate_short_code(length): the codes ''.join(random.choice(chars) for
\* _ in range(length)) can produce, here those made of one repeated character
\* of chars that is in SampleChars.
generate_short_code(length) ==
    { [i \in 1..length |-> chars[k]] :
        k \in { n \in DOMAIN chars : chars[n] \in SampleChars } }

\* content.decode('utf-8'): None when the bytes are not UTF-8 (the call raises).
Decode(content) ==
    IF \E i \in 1..Len(content) : content[i] = InvalidByte
    THEN None
    ELSE Some(content)

\* s.split(sep)[0]
RECURSIVE SplitFirst(_, _)
SplitFirst(s, sep) ==
    IF s = << >> \/ Head(s) = sep THEN << >>
    ELSE << Head(s) >> \o SplitFirst(Tail(s), sep)

\* s.strip()
RECURSIVE LStrip(_)
LStrip(s) == IF s # << >> /\ Head(s) = " " THEN LStrip(Tail(s)) ELSE s
RECURSIVE RStrip(_)
RStrip(s) ==
    IF s # << >> /\ s[Len(s)] = " " THEN RStrip(SubSeq(s, 1, Len(s) - 1)) ELSE s
Strip(s) == RStrip(LStrip(s))

\* client_ip with the two headers looked at in the other order.
ClientIpRealIpFirst(request) ==
    IF ~IsNone(request.xrealip) THEN Get(request.xrealip)
    ELSE IF ~IsNone(request.xff) THEN Strip(SplitFirst(Get(request.xff), ","))
    ELSE request.peer

\* client_ip of handle_short_url
ClientIp(request) ==
    IF ~IsNone(request.xff) THEN Strip(SplitFirst(Get(request.xff), ","))
    ELSE IF ~IsNone(request.xrealip) THEN Get(request.xrealip)
    ELSE request.peer

\* request.headers.get('user-agent', '')
UserAgent(request) ==
    IF IsNone(request.user_agent) THEN << >> ELSE Get(request.user_agent)

\* f"http://ip-api.com/json/{ip}"
GeoUrl(ip) == << "http://ip-api.com/json/" >> \o ip

\* dict.get(key, default) on a JSON object
DictGet(d, key, default) == IF key \in DOMAIN d THEN d[key] ELSE default

\* The three backquotes around the short URL.
CodeFence == "[3 backquotes]"

ShortUrlField(short_code) ==
    [name |-> "Short URL",
     value |-> << CodeFence, FrontendDomain, "/" >> \o short_code \o << CodeFence >>,
     inline |-> FALSE]

\* The "User Agent" field: the key is always in visitor_data, so the 'Unknown'
\* default of .get never applies.
UserAgentField(user_agent) ==
    [name |-> "User Agent",
     value |-> IF Len(user_agent) > UserAgentFieldLimit
               THEN SubSeq(user_agent, 1, UserAgentFieldLimit) \o << "..." >>
               ELSE user_agent,
     inline |-> FALSE]

GeoFields(geolocation) ==
    IF IsNone(geolocation) \/ DOMAIN Get(geolocation) = {} THEN << >>
    ELSE LET geo == Get(geolocation) IN
         << [name |-> "Location",
             value |-> << DictGet(geo, "city", "Unknown"), ", ",
                          DictGet(geo, "regionName", "Unknown"), ", ",
                          DictGet(geo, "country", "Unknown") >>,
             inline |-> TRUE],
            [name |-> "ISP", value |-> << DictGet(geo, "isp", "Unknown") >>,
             inline |-> TRUE] >>

\* The embed send_discord_webhook builds (its timestamp left out).
VisitEmbed(short_code, visitor_data) ==
    [title |-> "New URL Visit", color |-> VisitEmbedColor, author |-> "NOVAURL",
     fields |-> << ShortUrlField(short_code),
                   [name |-> "IP Address", value |-> visitor_data.ip_address,
                    inline |-> TRUE],
                   UserAgentField(visitor_data.user_agent) >>
                \o GeoFields(visitor_data.geolocation)]

\* The embed create_url builds (its timestamp left out).
CreateEmbed(short_code, redirect_url) ==
    [title |-> "New Short URL Created", color |-> CreateEmbedColor,
     author |-> "NOVAURL",
     fields |-> << ShortUrlField(short_code),
                   [name |-> "Redirects to", value |-> << redirect_url >>,
                    inline |-> FALSE] >>]

\* The script handle_short_url splices in, with the '</body>' that follows it.
RedirectScript(redirect_url) ==
    << "<script>setTimeout(() => { window.location.href = ''", redirect_url,
       "''; }, 3000);</script>" >>

\* The delay of the redirect, in milliseconds, as the page spells it.
RedirectDelay == "3000"

\* The default loading page with its <script> element left out.
DefaultPageWithoutRedirect(redirect_url) ==
    << "<!DOCTYPE html><html lang=''en''><head>...<title>Loading...</title>...</head><body>",
       "<div class=''loading''><div class=''spinner''></div><h1>Loading...</h1></div>",
       "</body></html>" >>

\* The default loading page (default_html), cut into chunks around the
\* redirect_url and the delay.
DefaultPage(redirect_url) ==
    << "<!DOCTYPE html><html lang=''en''><head>...<title>Loading...</title>...</head><body>",
       "<div class=''loading''><div class=''spinner''></div><h1>Loading...</h1></div>",
       "<script>", "setTimeout(() => {", "window.location.href = ''",
       redirect_url, "'';", "}, ", RedirectDelay, ");", "</script>",
       "</body></html>" >>

\* url_record.get('custom_html') is truthy: neither None nor ''.
HasCustomHtml(url_record) ==
    /\ ~IsNone(url_record.custom_html)
    /\ Get(url_record.custom_html) # << >>

\* A rendering that puts the redirect script at the end of a custom markup in
\* which it found no '</body>'.
RenderAppendingScript(url_record) ==
    IF HasCustomHtml(url_record)
    THEN IF Occurrences(Get(url_record.custom_html), BodyClose) = 0
         THEN Get(url_record.custom_html) \o
                 RedirectScript(url_record.redirect_url)
         ELSE Replace(Get(url_record.custom_html), BodyClose,
                      RedirectScript(url_record.redirect_url) \o BodyClose)
    ELSE DefaultPage(url_record.redirect_url)

\* The HTML handle_short_url returns for the record it looked up.
Render(url_record) ==
    IF HasCustomHtml(url_record)
    THEN Replace(Get(url_record.custom_html), BodyClose,
                 RedirectScript(url_record.redirect_url) \o BodyClose)
    ELSE DefaultPage(url_record.redirect_url)

\* ------------------------------------------------------- outbound answers

\* An answer of an external HTTP endpoint: a response with its status code (and,
\* for the geolocation service, the JSON value of its body, None for a body
\* that is not JSON), or an exception raised by httpx (connection refused,
\* timeout).
GeoSuccess ==
    [kind |-> "response", status_code |-> 200, json |-> Some(GeoPayload)]

AllGeoAnswers ==
    { GeoSuccess,
      [kind |-> "response", status_code |-> 200, json |-> Some(GeoFailPayload)],
      [kind |-> "response", status_code |-> 200, json |-> None],
      [kind |-> "response", status_code |-> 500, json |-> None],
      [kind |-> "exception"] }

AllPostAnswers ==
    { [kind |-> "response", status_code |-> 204],
      [kind |-> "response", status_code |-> 404],
      [kind |-> "exception"] }

\* An endpoint that accepts the call and never answers.
Silent == [kind |-> "silent"]

\* await client.get(...) on a client built with timeout=None: the call of an
\* endpoint that never answers never returns.
client_get_without_timeout(answer) == answer

\* await client.get(...) and await client.post(...) on httpx.AsyncClient(): the
\* client keeps the default timeout of httpx, so the call of an endpoint that
\* never answers ends with an exception (httpx.TimeoutException).
client_get(answer) ==
    IF answer.kind = "silent" THEN [kind |-> "exception"] ELSE answer

client_post(answer) ==
    IF answer.kind = "silent" THEN [kind |-> "exception"] ELSE answer

\* What a helper hands back to its caller: it raised, or it returned a value,
\* possibly after logging an error.
Returned(value) == [raised |-> FALSE, value |-> value, logged |-> ""]
Logged(message) == [raised |-> FALSE, value |-> None, logged |-> message]
Raised == [raised |-> TRUE, value |-> None, logged |-> ""]

\* get_ip_geolocation without its try/except: an exception of httpx, or of
\* response.json() on a body that is not JSON, escapes.
get_ip_geolocation_unguarded(answer) ==
    IF answer.kind = "exception" THEN Raised
    ELSE IF answer.status_code = 200
    THEN IF IsNone(answer.json) THEN Raised ELSE Returned(answer.json)
    ELSE Returned(None)

\* get_ip_geolocation: the whole body is inside try/except Exception, the call
\* of response.json() included; under status 200 the JSON value is returned as
\* it is.
get_ip_geolocation(answer) ==
    IF answer.kind = "exception" THEN Logged("Failed to get geolocation")
    ELSE IF answer.status_code = 200
    THEN IF IsNone(answer.json) THEN Logged("Failed to get geolocation")
         ELSE Returned(answer.json)
    ELSE Returned(None)

\* send_discord_webhook without its try/except: an exception of httpx escapes.
send_discord_webhook_unguarded(answer) ==
    IF answer.kind = "exception" THEN Raised
    ELSE IF answer.status_code # 204 THEN Logged("Discord webhook failed")
    ELSE Returned(None)

\* send_discord_webhook: the whole body is inside try/except Exception; a
\* status other than 204 is logged.
send_discord_webhook(answer) ==
    IF answer.kind = "exception" THEN Logged("Failed to send Discord webhook")
    ELSE IF answer.status_code # 204 THEN Logged("Discord webhook failed")
    ELSE Returned(None)

\* The POSTs of send_discord_webhook if a failed attempt were made again.
webhook_posts_retried(webhook_url, embed, answer) ==
    LET post == [method |-> "POST", url |-> webhook_url, embed |-> embed] IN
    IF answer.kind = "exception" \/ answer.status_code # 204
    THEN << post, post >>
    ELSE << post >>

\* The POSTs of send_discord_webhook: client.post(webhook_url, json=payload) is
\* called once, and neither the status of the response nor an exception leads
\* to another call.
webhook_posts(webhook_url, embed, answer) ==
    << [method |-> "POST", url |-> webhook_url, embed |-> embed] >>

\* The creation notification without its try/except: an exception of httpx
\* escapes create_url.
creation_webhook_unguarded(answer) ==
    IF answer.kind = "exception" THEN Raised ELSE Returned(None)

\* The creation notification of create_url: the POST is inside try/except
\* Exception and the status of the response is not looked at.
creation_webhook(answer) ==
    IF answer.kind = "exception" THEN Logged("Failed to send creation webhook")
    ELSE Returned(None)

\* ------------------------------------------------------- store operations

\* Documents of a collection in natural (insertion) order.
Matches(coll, short_code) == { i \in DOMAIN coll : coll[i].short_code = short_code }

FirstMatch(coll, short_code) ==
    CHOOSE i \in Matches(coll, short_code) :
        \A j \in Matches(coll, short_code) : i <= j

\* find_one with the filter dropped: the first document, whatever its code.
find_one_unfiltered(coll, short_code) ==
    IF coll = << >> THEN None ELSE Some(coll[1])

\* collection.find_one({"short_code": short_code})
find_one(coll, short_code) ==
    IF Matches(coll, short_code) = {} THEN None
    ELSE Some(coll[FirstMatch(coll, short_code)])

\* collection.insert_one(doc)
insert_one(coll, doc) == Append(coll, doc)

\* collection.delete_one({"short_code": short_code}): the collection afterwards.
delete_one(coll, short_code) ==
    IF Matches(coll, short_code) = {} THEN coll
    ELSE LET k == FirstMatch(coll, short_code) IN
         SubSeq(coll, 1, k - 1) \o SubSeq(coll, k + 1, Len(coll))

\* result.acknowledged taken for the count: 1 whether or not a document matched.
deleted_count_acknowledged(coll, short_code) == 1

\* result.deleted_count of delete_one
deleted_count(coll, short_code) ==
    IF Matches(coll, short_code) = {} THEN 0 ELSE 1

\* collection.update_one({"short_code": short_code}, {"$inc": {"click_count": 1}})
update_one_inc(coll, short_code) ==
    IF Matches(coll, short_code) = {} THEN coll
    ELSE LET k == FirstMatch(coll, short_code) IN
         [coll EXCEPT ![k].click_count = @ + 1]

\* collection.find().to_list(length)
to_list(coll, length) ==
    SubSeq(coll, 1, IF Len(coll) < length THEN Len(coll) ELSE length)

\* URLRecord(...) with the creation counted as a click: click_count starts at 1.
URLRecordCountingCreation(id, short_code, redirect_url, discord_webhook, custom_html) ==
    [id |-> id, short_code |-> short_code, redirect_url |-> redirect_url,
     discord_webhook |-> discord_webhook, custom_html |-> custom_html,
     click_count |-> 1]

\* URLRecord(...) with redirect_url and discord_webhook passed in each other's
\* place.
URLRecordSwapped(id, short_code, redirect_url, discord_webhook, custom_html) ==
    [id |-> id, short_code |-> short_code, redirect_url |-> discord_webhook,
     discord_webhook |-> redirect_url, custom_html |-> custom_html,
     click_count |-> 0]

\* URLRecord(...): id is a fresh uuid4, click_count defaults to 0 (created_at
\* left out).
URLRecord(id, short_code, redirect_url, discord_webhook, custom_html) ==
    [id |-> id, short_code |-> short_code, redirect_url |-> redirect_url,
     discord_webhook |-> discord_webhook, custom_html |-> custom_html,
     click_count |-> 0]

\* A Visit row that does not carry the short code of its resolve.
VisitorDataWithoutCode(id, short_code, ip_address, user_agent, geolocation) ==
    [id |-> id, short_code |-> << >>, ip_address |-> ip_address,
     user_agent |-> user_agent, geolocation |-> geolocation]

\* VisitorData(...): id is a fresh uuid4 (timestamp left out).
VisitorData(id, short_code, ip_address, user_agent, geolocation) ==
    [id |-> id, short_code |-> short_code, ip_address |-> ip_address,
     user_agent |-> user_agent, geolocation |-> geolocation]

\* ------------------------------------------------------------------- state

VARIABLES
    urls,       \* db.urls, in natural order
    visitors,   \* db.visitors, in natural order
    calls,      \* calls[p]: the outbound HTTP calls of the request p handles
    pc,         \* pc[p]: where the request handled by p stands
    req,        \* req[p]: the request p handles
    loc,        \* loc[p]: the local variables of its handler
    resp,       \* resp[p]: the response returned, once pc[p] = "done"
    nreq,       \* requests accepted so far; the source of fresh uuids
    workload,   \* the workload explored in this behaviour
    deleted     \* history: per short code, "never" deleted, "deleted" by a
                \* delete that returned 200 and not inserted since, or
                \* "reassigned" by an insert after such a delete

vars == << urls, visitors, calls, pc, req, loc, resp, nreq, workload, deleted >>

\* The short codes a path can carry.
PathCodes == generate_short_code(DefaultCodeLength)

NoRequest == [op |-> "none", rid |-> 0]
NoLocals == [short_code |-> << >>]
NoResponse == [status |-> 0]

Init ==
    /\ urls = << >>
    /\ visitors = << >>
    /\ calls = [p \in Procs |-> << >>]
    /\ pc = [p \in Procs |-> "idle"]
    /\ req = [p \in Procs |-> NoRequest]
    /\ loc = [p \in Procs |-> NoLocals]
    /\ resp = [p \in Procs |-> NoResponse]
    /\ nreq = 0
    /\ workload \in Workloads
    /\ deleted = [c \in PathCodes |-> "never"]

\* The operations and inputs of the workload.
Operations ==
    IF workload = "concurrent"
    THEN { "create", "delete", "resolve" }
    ELSE { "create", "list", "delete", "resolve" }
Forms == IF workload = "sequential" THEN AllForms ELSE { BasicForm }
FirstDraws ==
    IF workload = "concurrent"
    THEN { CHOOSE short_code \in generate_short_code(DefaultCodeLength) : TRUE }
    ELSE generate_short_code(DefaultCodeLength)
Uploads == IF workload = "sequential" THEN AllUploads ELSE { None }
Visitors ==
    IF workload = "sequential"
    THEN AllVisitors
    ELSE { v \in AllVisitors : IsNone(v.xff) /\ IsNone(v.xrealip) }
GeoAnswers ==
    IF workload = "unresponsive" THEN { Silent }
    ELSE IF workload = "concurrent"
    THEN { GeoSuccess }
    ELSE AllGeoAnswers
PostAnswers ==
    IF workload = "unresponsive" THEN { Silent }
    ELSE IF workload = "concurrent"
    THEN { a \in AllPostAnswers : a.kind = "response" /\ a.status_code = 204 }
    ELSE AllPostAnswers
MaxRequests ==
    IF workload = "concurrent" THEN ConcurrentRequests ELSE SequentialRequests
MaxInFlight == IF workload = "concurrent" THEN ConcurrentWorkers ELSE 1

\* p handles no request: it has handled none yet, or has sent its response.
Free(p) == pc[p] \in { "idle", "done" }

\* A request is accepted while the workload allows one more in flight; which
\* free worker takes it does not matter, so the first one does.  What the
\* worker holds of its previous request is dropped then.
Accepts(p, op) ==
    /\ op \in Operations
    /\ Free(p)
    /\ \A q \in Procs : q < p => ~Free(q)
    /\ nreq < MaxRequests
    /\ Cardinality({ q \in Procs : ~Free(q) }) < MaxInFlight

\* The handler of p returns (or raises HTTPException): the response is sent.
Respond(p, status, body) ==
    /\ pc' = [pc EXCEPT ![p] = "done"]
    /\ resp' = [resp EXCEPT ![p] = [status |-> status, body |-> body]]

Goto(p, label) ==
    /\ pc' = [pc EXCEPT ![p] = label]
    /\ resp' = [resp EXCEPT ![p] = NoResponse]

\* ------------------------------------------------- POST /api/urls: create_url

DotHtml == << ".", "h", "t", "m", "l" >>

\* The code of create_url from the end of its while loop up to `await
\* db.urls.insert_one`: the filename check, the read and decode of the upload,
\* URLRecord(...).  The locals keep note of a code that was drawn again.
AcceptCode(p, request, short_code) ==
    LET custom_html == request.custom_html
        named == ~IsNone(custom_html) /\ Get(custom_html).filename # << >>
        url_record ==
            URLRecord(request.rid, short_code, request.redirect_url,
                      request.discord_webhook,
                      IF named THEN Decode(Get(custom_html).content) ELSE None)
    IN  IF named /\ ~EndsWith(Get(custom_html).filename, DotHtml)
        THEN /\ loc' = [loc EXCEPT ![p] = [short_code |-> short_code]]
             /\ Respond(p, 400, [detail |-> "Only HTML files are allowed"])
        ELSE IF named /\ IsNone(Decode(Get(custom_html).content))
        THEN /\ loc' = [loc EXCEPT ![p] = [short_code |-> short_code]]
             /\ Respond(p, 500, [detail |-> "Internal Server Error"])
        ELSE /\ loc' = [loc EXCEPT ![p] =
                   IF pc[p] = "find_code"
                   THEN [short_code |-> short_code, url_record |-> url_record,
                         redrawn |-> TRUE]
                   ELSE [short_code |-> short_code, url_record |-> url_record]]
             /\ Goto(p, "insert")

\* One turn of `while await db.urls.find_one(...)` for the candidate short_code
\* and, when the code is free, the code that follows the loop.
CheckCode(p, request, short_code) ==
    IF ~IsNone(find_one(urls, short_code))
    THEN \E again \in generate_short_code(DefaultCodeLength) :
            /\ loc' = [loc EXCEPT ![p] = [short_code |-> again]]
            /\ Goto(p, "find_code")
    ELSE AcceptCode(p, request, short_code)

\* The request arrives, the first code is generated and looked up.
CreateUrl(p) ==
    /\ Accepts(p, "create")
    /\ \E form \in Forms, upload \in Uploads,
          short_code \in FirstDraws :
          LET request == [op |-> "create", rid |-> nreq + 1,
                          redirect_url |-> form.redirect_url,
                          discord_webhook |-> form.discord_webhook,
                          custom_html |-> upload]
          IN  /\ req' = [req EXCEPT ![p] = request]
              /\ CheckCode(p, request, short_code)
    /\ nreq' = nreq + 1
    /\ calls' = [calls EXCEPT ![p] = << >>]
    /\ UNCHANGED << urls, visitors, workload, deleted >>

\* The loop as an `if`: the regenerated code is taken without a lookup.
CreateRetryUnchecked(p) ==
    /\ pc[p] = "find_code"
    /\ AcceptCode(p, req[p], loc[p].short_code)
    /\ UNCHANGED << urls, visitors, calls, req, nreq, workload, deleted >>

\* The code was taken: the regenerated one is looked up.
CreateRetry(p) ==
    /\ pc[p] = "find_code"
    /\ CheckCode(p, req[p], loc[p].short_code)
    /\ UNCHANGED << urls, visitors, calls, req, nreq, workload, deleted >>

\* await db.urls.insert_one(url_record.dict())
CreateInsert(p) ==
    /\ pc[p] = "insert"
    /\ urls' = insert_one(urls, loc[p].url_record)
    /\ deleted' = [deleted EXCEPT ![loc[p].short_code] =
                      IF @ = "deleted" THEN "reassigned" ELSE @]
    /\ Goto(p, "announce")
    /\ UNCHANGED << visitors, calls, req, loc, nreq, workload >>

\* The creation notification, then `return url_record`.
CreateNotify(p) ==
    /\ pc[p] = "announce"
    /\ \E answer \in PostAnswers :
          /\ client_post(answer).kind # "silent"
          /\ calls' = [calls EXCEPT ![p] = Append(@,
                [method |-> "POST", url |-> req[p].discord_webhook,
                 embed |-> CreateEmbed(loc[p].short_code, req[p].redirect_url)])]
          /\ loc' = [loc EXCEPT ![p] =
                [short_code |-> @.short_code,
                 url_record |-> @.url_record,
                 post_answer |-> answer]]
          /\ IF creation_webhook(client_post(answer)).raised
             THEN Respond(p, 500, [detail |-> "Internal Server Error"])
             ELSE Respond(p, 200, loc[p].url_record)
    /\ UNCHANGED << urls, visitors, req, nreq, workload, deleted >>

\* ----------------------------------------------------- GET /api/urls: get_urls

GetUrls(p) ==
    /\ Accepts(p, "list")
    /\ req' = [req EXCEPT ![p] = [op |-> "list", rid |-> nreq + 1]]
    /\ nreq' = nreq + 1
    /\ Respond(p, 200, to_list(urls, ListLimit))
    /\ calls' = [calls EXCEPT ![p] = << >>]
    /\ loc' = [loc EXCEPT ![p] = NoLocals]
    /\ UNCHANGED << urls, visitors, workload, deleted >>

\* ------------------------------------- DELETE /api/urls/{short_code}: delete_url

\* A delete that also removes the rows of db.visitors that carry the code.
DeleteUrlCascading(p) ==
    /\ Accepts(p, "delete")
    /\ \E short_code \in PathCodes :
          /\ req' = [req EXCEPT ![p] =
                [op |-> "delete", rid |-> nreq + 1, short_code |-> short_code]]
          /\ urls' = delete_one(urls, short_code)
          /\ visitors' = SelectSeq(visitors,
                            LAMBDA row : row.short_code # short_code)
          /\ IF deleted_count(urls, short_code) = 0
             THEN /\ Respond(p, 404, [detail |-> "URL not found"])
                  /\ deleted' = deleted
             ELSE /\ Respond(p, 200, [message |-> "URL deleted successfully"])
                  /\ deleted' = [deleted EXCEPT ![short_code] = "deleted"]
    /\ nreq' = nreq + 1
    /\ calls' = [calls EXCEPT ![p] = << >>]
    /\ loc' = [loc EXCEPT ![p] = NoLocals]
    /\ UNCHANGED workload

DeleteUrl(p) ==
    /\ Accepts(p, "delete")
    /\ \E short_code \in PathCodes :
          /\ req' = [req EXCEPT ![p] =
                [op |-> "delete", rid |-> nreq + 1, short_code |-> short_code]]
          /\ urls' = delete_one(urls, short_code)
          /\ IF deleted_count(urls, short_code) = 0
             THEN /\ Respond(p, 404, [detail |-> "URL not found"])
                  /\ deleted' = deleted
             ELSE /\ Respond(p, 200, [message |-> "URL deleted successfully"])
                  /\ deleted' = [deleted EXCEPT ![short_code] = "deleted"]
    /\ nreq' = nreq + 1
    /\ calls' = [calls EXCEPT ![p] = << >>]
    /\ loc' = [loc EXCEPT ![p] = NoLocals]
    /\ UNCHANGED << visitors, workload >>

\* ------------------------------------------ GET /{short_code}: handle_short_url

\* The request arrives and the record is looked up; when it is found, client_ip
\* and user_agent are read from the request.
HandleShortUrl(p) ==
    /\ Accepts(p, "resolve")
    /\ \E short_code \in PathCodes, visitor \in Visitors :
          LET url_record == find_one(urls, short_code) IN
          /\ req' = [req EXCEPT ![p] =
                [op |-> "resolve", rid |-> nreq + 1, short_code |-> short_code,
                 peer |-> visitor.peer, xff |-> visitor.xff,
                 xrealip |-> visitor.xrealip, user_agent |-> visitor.user_agent]]
          /\ IF IsNone(url_record)
             THEN /\ loc' = [loc EXCEPT ![p] = NoLocals]
                  /\ Respond(p, 404, [detail |-> "URL not found"])
             ELSE /\ loc' = [loc EXCEPT ![p] =
                        [short_code |-> short_code,
                         url_record |-> Get(url_record),
                         client_ip |-> ClientIp(visitor),
                         user_agent |-> UserAgent(visitor)]]
                  /\ Goto(p, "geolocate")
    /\ nreq' = nreq + 1
    /\ calls' = [calls EXCEPT ![p] = << >>]
    /\ UNCHANGED << urls, visitors, workload, deleted >>

\* geo_data = await get_ip_geolocation(client_ip), then VisitorData(...)
Geolocate(p) ==
    /\ pc[p] = "geolocate"
    /\ \E answer \in GeoAnswers :
          LET result == get_ip_geolocation(client_get(answer)) IN
          /\ client_get(answer).kind # "silent"
          /\ calls' = [calls EXCEPT ![p] = Append(@,
                [method |-> "GET", url |-> GeoUrl(loc[p].client_ip)])]
          /\ IF result.raised
             THEN /\ loc' = loc
                  /\ Respond(p, 500, [detail |-> "Internal Server Error"])
             ELSE /\ loc' = [loc EXCEPT ![p] =
                        [short_code |-> @.short_code,
                         url_record |-> @.url_record,
                         client_ip |-> @.client_ip,
                         user_agent |-> @.user_agent,
                         geo_answer |-> answer,
                         geo_data |-> result.value]]
                  /\ Goto(p, "record")
    /\ UNCHANGED << urls, visitors, req, nreq, workload, deleted >>

\* The row write handed to a background task that has not run by the time the
\* page is returned.
RecordVisitDeferred(p) ==
    /\ pc[p] = "record"
    /\ Goto(p, "count")
    /\ UNCHANGED << urls, visitors, calls, req, loc, nreq, workload, deleted >>

\* await db.visitors.insert_one(visitor_data.dict())
RecordVisit(p) ==
    /\ pc[p] = "record"
    /\ visitors' = insert_one(visitors,
            VisitorData(req[p].rid, loc[p].short_code, loc[p].client_ip,
                        loc[p].user_agent, loc[p].geo_data))
    /\ Goto(p, "count")
    /\ UNCHANGED << urls, calls, req, loc, nreq, workload, deleted >>

\* The counter update as a read-modify-write in the handler: the click_count
\* read at lookup, plus one, is written back.
CountClickReadModifyWrite(p) ==
    /\ pc[p] = "count"
    /\ urls' = IF Matches(urls, loc[p].short_code) = {} THEN urls
               ELSE [urls EXCEPT ![FirstMatch(urls, loc[p].short_code)].click_count =
                        loc[p].url_record.click_count + 1]
    /\ Goto(p, "notify")
    /\ UNCHANGED << visitors, calls, req, loc, nreq, workload, deleted >>

\* await db.urls.update_one({"short_code": ...}, {"$inc": {"click_count": 1}})
CountClick(p) ==
    /\ pc[p] = "count"
    /\ urls' = update_one_inc(urls, loc[p].short_code)
    /\ Goto(p, "notify")
    /\ UNCHANGED << visitors, calls, req, loc, nreq, workload, deleted >>

\* await send_discord_webhook(...), then the page is rendered and returned.
NotifyVisit(p) ==
    /\ pc[p] = "notify"
    /\ \E answer \in PostAnswers :
          LET result == send_discord_webhook(client_post(answer)) IN
          /\ client_post(answer).kind # "silent"
          /\ calls' = [calls EXCEPT ![p] = @ \o
                webhook_posts(loc[p].url_record.discord_webhook,
                    VisitEmbed(loc[p].short_code,
                        [ip_address |-> loc[p].client_ip,
                         user_agent |-> loc[p].user_agent,
                         geolocation |-> loc[p].geo_data]),
                    client_post(answer))]
          /\ loc' = [loc EXCEPT ![p] =
                [short_code |-> @.short_code,
                 url_record |-> @.url_record,
                 client_ip |-> @.client_ip,
                 user_agent |-> @.user_agent,
                 geo_answer |-> @.geo_answer,
                 geo_data |-> @.geo_data,
                 post_answer |-> answer]]
          /\ IF result.raised
             THEN Respond(p, 500, [detail |-> "Internal Server Error"])
             ELSE Respond(p, 200, Render(loc[p].url_record))
    /\ UNCHANGED << urls, visitors, req, nreq, workload, deleted >>

\* ---------------------------------------------------------------- the system

Next ==
    \E p \in Procs :
        \/ CreateUrl(p)
        \/ CreateRetry(p)
        \/ CreateInsert(p)
        \/ CreateNotify(p)
        \/ GetUrls(p)
        \/ DeleteUrl(p)
        \/ HandleShortUrl(p)
        \/ Geolocate(p)
        \/ RecordVisit(p)
        \/ CountClick(p)
        \/ NotifyVisit(p)

Spec == Init /\ [][Next]_vars

\* The event loop resumes a coroutine once the operation it awaits has ended,
\* and a store operation ends.
Resume(p) ==
    \/ CreateRetry(p)
    \/ CreateInsert(p)
    \/ CreateNotify(p)
    \/ Geolocate(p)
    \/ RecordVisit(p)
    \/ CountClick(p)
    \/ NotifyVisit(p)

\* The workloads whose outbound calls fail or get no answer; their requests run
\* one at a time.  No handler waits for another one, so a handler's way to its
\* response is the same with other requests in flight.
LiveInit == Init /\ workload # "concurrent"

LiveSpec == LiveInit /\ [][Next]_vars /\ \A p \in Procs : WF_vars(Resume(p))

\* ------------------------------------------------------- a store that fails

\* The store operations a handler awaits past its first one, by the place of
\* the handler: find_one of the loop and insert_one in create_url, insert_one
\* and update_one in handle_short_url.
StoreSteps == { "find_code", "insert", "record", "count" }

\* The handler once the exception of a store operation has left it: FastAPI
\* answers 500.  The locals keep note of the operation that failed.
Aborts(p, step, locals) ==
    /\ loc' = [loc EXCEPT ![p] = [failed_step |-> step] @@ locals]
    /\ Respond(p, 500, [detail |-> "Internal Server Error"])

\* A handler that catches the exception of insert_one or update_one and goes
\* on with its next step.
StoreFailsAbsorbed(p) ==
    /\ pc[p] \in StoreSteps
    /\ IF pc[p] = "find_code"
       THEN Aborts(p, pc[p], loc[p])
       ELSE /\ loc' = [loc EXCEPT ![p] = [failed_step |-> pc[p]] @@ @]
            /\ Goto(p, CASE pc[p] = "insert" -> "announce"
                          [] pc[p] = "record" -> "count"
                          [] pc[p] = "count" -> "notify")
    /\ UNCHANGED << urls, visitors, calls, req, nreq, workload, deleted >>

\* The store operation the handler of p awaits raises (the store is down, the
\* write is refused): no handler has a try/except around a store call, so the
\* exception leaves the handler and nothing of it runs any more.
StoreFails(p) ==
    /\ pc[p] \in StoreSteps
    /\ Aborts(p, pc[p], loc[p])
    /\ UNCHANGED << urls, visitors, calls, req, nreq, workload, deleted >>

\* A create or a resolve arrives and its first store operation, the find_one of
\* the code, raises.
FirstReadFails(p) ==
    /\ \/ /\ Accepts(p, "create")
          /\ \E form \in Forms, upload \in Uploads :
                req' = [req EXCEPT ![p] =
                    [op |-> "create", rid |-> nreq + 1,
                     redirect_url |-> form.redirect_url,
                     discord_webhook |-> form.discord_webhook,
                     custom_html |-> upload]]
       \/ /\ Accepts(p, "resolve")
          /\ \E short_code \in PathCodes, visitor \in Visitors :
                req' = [req EXCEPT ![p] =
                    [op |-> "resolve", rid |-> nreq + 1,
                     short_code |-> short_code,
                     peer |-> visitor.peer, xff |-> visitor.xff,
                     xrealip |-> visitor.xrealip,
                     user_agent |-> visitor.user_agent]]
    /\ Aborts(p, "find_one", NoLocals)
    /\ nreq' = nreq + 1
    /\ calls' = [calls EXCEPT ![p] = << >>]
    /\ UNCHANGED << urls, visitors, workload, deleted >>

\* Requests one at a time, with the basic inputs, on a store whose operations
\* may fail.
FailInit ==
    /\ urls = << >>
    /\ visitors = << >>
    /\ calls = [p \in Procs |-> << >>]
    /\ pc = [p \in Procs |-> "idle"]
    /\ req = [p \in Procs |-> NoRequest]
    /\ loc = [p \in Procs |-> NoLocals]
    /\ resp = [p \in Procs |-> NoResponse]
    /\ nreq = 0
    /\ workload = "store_failure"
    /\ deleted = [c \in PathCodes |-> "never"]

FailNext ==
    \/ Next
    \/ \E p \in Procs : StoreFails(p)
    \/ \E p \in Procs : FirstReadFails(p)

FailSpec == FailInit /\ [][FailNext]_vars

\* ------------------------------------------------- listing a well-filled store

\* The stores listed hold from ListLimit - StoreMargin to ListLimit +
\* StoreMargin Links.
StoreMargin == 20

\* The n-th code over chars, in the order of counting: the digits of n in base
\* Len(chars), least significant last.
RECURSIVE Digit(_, _)
Digit(n, k) == IF k = 0 THEN n % Len(chars) ELSE Digit(n \div Len(chars), k - 1)
CodeOf(n) ==
    [i \in 1..DefaultCodeLength |-> chars[Digit(n, DefaultCodeLength - i) + 1]]

\* db.urls after `size` creates of BasicForm that drew the codes CodeOf(1),
\* CodeOf(2), ...
FilledStore(size) ==
    [n \in 1..size |->
        URLRecord(n, CodeOf(n), BasicForm.redirect_url,
                  BasicForm.discord_webhook, None)]

ListInit ==
    /\ urls \in { FilledStore(ListLimit - StoreMargin + k) :
                    k \in 0..StoreMargin + StoreMargin }
    /\ visitors = << >>
    /\ calls = [p \in Procs |-> << >>]
    /\ pc = [p \in Procs |-> "idle"]
    /\ req = [p \in Procs |-> NoRequest]
    /\ loc = [p \in Procs |-> NoLocals]
    /\ resp = [p \in Procs |-> NoResponse]
    /\ nreq = 0
    /\ workload = "sequential"
    /\ deleted = [c \in PathCodes |-> "never"]

ListNext == \E p \in Procs : GetUrls(p)

ListSpec == ListInit /\ [][ListNext]_vars

\* ===================================================================== claims

\* p handles a resolve whose lookup found the short code.
ResolveFound(p) ==
    /\ req[p].op = "resolve"
    /\ \/ pc[p] \in { "geolocate", "record", "count", "notify" }
       \/ pc[p] = "done" /\ resp[p].status # 404

\* p handles a resolve that has finished and whose lookup found the short code.
ResolveServed(p) == ResolveFound(p) /\ pc[p] = "done"

\* The Visit rows written by the request with this id.
RowsOf(rid) == { i \in DOMAIN visitors : visitors[i].id = rid }

\* The Link records with this document id.
LinksOf(id) == { i \in DOMAIN urls : urls[i].id = id }

\* In this step p accepts a new request.
Accepted(p) == nreq' = nreq + 1 /\ req'[p].rid = nreq + 1

\* In this step p runs the counter update of its resolve.
Counts(p) == pc[p] = "count" /\ pc'[p] = "notify"

\* --------------------------------------------------------------------- C1

\* The row part of C1: a resolve whose lookup found the code has written no
\* Visit row before its record step and exactly one, for its code, after it,
\* whatever the geolocation service and the webhook answered.
OneVisitRow ==
    \A p \in Procs :
        ResolveFound(p) =>
            IF pc[p] \in { "geolocate", "record" }
            THEN RowsOf(req[p].rid) = {}
            ELSE /\ Cardinality(RowsOf(req[p].rid)) = 1
                 /\ \A i \in RowsOf(req[p].rid) :
                        visitors[i].short_code = req[p].short_code

\* C1 as stated (refuted): every resolve whose lookup finds the short code
\* produces exactly one Visit row for the code and exactly one increment of the
\* click_count of the Link it looked up.
C1_AsStated ==
    /\ [] OneVisitRow
    /\ [][ \A p \in Procs :
             Counts(p) =>
                \E i \in LinksOf(loc[p].url_record.id) :
                    urls' = [urls EXCEPT ![i].click_count = @ + 1] ]_vars

\* C1, amended: every resolve whose lookup finds the short code produces
\* exactly one Visit row for the code, for every answer of the geolocation
\* service and of the webhook; its counter update raises the click_count of the
\* Link it looked up by exactly one and changes nothing else, provided that Link
\* is still in the store when the update runs.
C1_OneRowOneIncrement ==
    /\ [] OneVisitRow
    /\ [][ \A p \in Procs :
             (Counts(p) /\ LinksOf(loc[p].url_record.id) # {}) =>
                \E i \in LinksOf(loc[p].url_record.id) :
                    urls' = [urls EXCEPT ![i].click_count = @ + 1] ]_vars

\* A resolve served although both the geolocation lookup and the notification
\* raised: its row is written and the Link it looked up has been counted.
C1_Witness ==
    \E p \in Procs :
        /\ ResolveServed(p)
        /\ loc[p].geo_answer.kind = "exception"
        /\ loc[p].post_answer.kind = "exception"
        /\ Cardinality(RowsOf(req[p].rid)) = 1
        /\ \E i \in LinksOf(loc[p].url_record.id) :
              urls[i].click_count = loc[p].url_record.click_count + 1

\* --------------------------------------------------------------------- C2

\* The Visit rows of a short code, and the resolves of it that have written
\* their row and not yet run their counter update.
VisitsOf(short_code) == Cardinality(Matches(visitors, short_code))
AboutToCount(short_code) ==
    Cardinality({ p \in Procs : pc[p] = "count" /\ loc[p].short_code = short_code })

\* C2: while no delete of a short code has occurred, the click_count of its Link
\* is the number of resolves of it that have run their counter update, however
\* the steps of concurrent resolves interleave: once N resolves have finished the
\* count is N more than the 0 the Link was created with.
C2_NoLostIncrement ==
    \A c \in PathCodes :
        (deleted[c] = "never" /\ Matches(urls, c) # {}) =>
            Get(find_one(urls, c)).click_count = VisitsOf(c) - AboutToCount(c)

\* Two resolves of one code overlapped (the one accepted first is still in
\* flight, the other is served) and both increments are in the count.
C2_Witness ==
    \E p, q \in Procs :
        /\ ResolveServed(p) /\ ResolveFound(q) /\ pc[q] = "notify"
        /\ req[q].rid < req[p].rid
        /\ req[p].short_code = req[q].short_code
        /\ deleted[req[p].short_code] = "never"
        /\ Get(find_one(urls, req[p].short_code)).click_count = 2

\* --------------------------------------------------------------------- C3

\* C3 as stated (refuted by the code): no two Link records in the store have
\* the same short_code.
C3_UniqueShortCodes ==
    \A i, j \in DOMAIN urls :
        i # j => urls[i].short_code # urls[j].short_code

\* --------------------------------------------------------------------- C4

\* In this step p accepts a resolve of a short code no Link carries.
ResolvesAbsent(p) ==
    /\ Accepted(p)
    /\ req'[p].op = "resolve"
    /\ Matches(urls, req'[p].short_code) = {}

\* C4: a resolve of a short code absent from the Link store returns 404 at once,
\* with both tables as they were and no outbound call made; and a request that
\* has returned takes no further step, so no call or row follows.
C4_AbsentCodeIs404 ==
    /\ [][ \A p \in Procs :
             ResolvesAbsent(p) =>
                /\ pc'[p] = "done" /\ resp'[p].status = 404
                /\ calls'[p] = << >>
                /\ urls' = urls /\ visitors' = visitors ]_vars
    /\ [][ \A p \in Procs :
             (pc[p] = "done" /\ ~Accepted(p)) =>
                /\ pc'[p] = "done" /\ resp'[p] = resp[p] /\ calls'[p] = calls[p]
                /\ RowsOf(req[p].rid) = RowsOf(req[p].rid)' ]_vars
    /\ [] \A p \in Procs :
             (req[p].op = "resolve" /\ pc[p] = "done" /\ resp[p].status = 404) =>
                calls[p] = << >> /\ RowsOf(req[p].rid) = {}

\* A resolve answered 404 while the store holds a Link (of another code) and a
\* Visit row.
C4_Witness ==
    \E p \in Procs :
        /\ req[p].op = "resolve" /\ pc[p] = "done" /\ resp[p].status = 404
        /\ urls # << >> /\ visitors # << >>

\* --------------------------------------------------------------------- C5

\* C5 as stated (refuted by the code): once a delete of a short code has
\* returned 200, and until a create inserts that code again, every resolve of
\* the code returns 404.
C5_DeletedCodeIs404 ==
    [][ \A p \in Procs :
          ( /\ Accepted(p)
            /\ req'[p].op = "resolve"
            /\ deleted[req'[p].short_code] = "deleted" ) =>
                pc'[p] = "done" /\ resp'[p].status = 404 ]_vars

\* --------------------------------------------------------------------- C6

\* In this step p accepts a delete of a short code no Link carries.
DeletesAbsent(p) ==
    /\ Accepted(p)
    /\ req'[p].op = "delete"
    /\ Matches(urls, req'[p].short_code) = {}

\* C6: a delete of a short code that no Link carries returns 404 and leaves the
\* Link table and the Visit table as they were.
C6_DeleteAbsentIs404 ==
    [][ \A p \in Procs :
          DeletesAbsent(p) =>
             /\ pc'[p] = "done" /\ resp'[p].status = 404
             /\ urls' = urls /\ visitors' = visitors ]_vars

\* A delete answered 404 while the store holds a Link and a Visit row.
C6_Witness ==
    \E p \in Procs :
        /\ req[p].op = "delete" /\ pc[p] = "done" /\ resp[p].status = 404
        /\ urls # << >> /\ visitors # << >>

\* --------------------------------------------------------------------- C7

\* The filename of the upload ends in ".html".
NamedHtml(upload) ==
    LET name == upload.filename IN
    /\ Len(name) >= 5
    /\ SubSeq(name, Len(name) - 4, Len(name)) = << ".", "h", "t", "m", "l" >>

\* The create of p was turned down: it has not gone past the code check, or it
\* has returned 400; it has persisted no Link and sent no notification.
TurnedDown(p) ==
    /\ \/ pc[p] = "find_code"
       \/ pc[p] = "done" /\ resp[p].status = 400
    /\ LinksOf(req[p].rid) = {}
    /\ calls[p] = << >>

\* C7 as stated (refuted): a create whose custom_html file part has a filename
\* that does not end in ".html" returns 400, persists no Link and sends no
\* creation notification.
C7_AsStated ==
    \A p \in Procs :
        ( /\ req[p].op = "create"
          /\ ~IsNone(req[p].custom_html)
          /\ ~NamedHtml(Get(req[p].custom_html)) ) =>
            TurnedDown(p)

\* C7, amended: a create whose custom_html file part has a non-empty filename
\* that does not end in ".html" returns 400, persists no Link and sends no
\* creation notification.
C7_BadFilenameIs400 ==
    \A p \in Procs :
        ( /\ req[p].op = "create"
          /\ ~IsNone(req[p].custom_html)
          /\ Get(req[p].custom_html).filename # << >>
          /\ ~NamedHtml(Get(req[p].custom_html)) ) =>
            TurnedDown(p)

\* The upload named test.txt was answered 400 while the store holds a Link.
C7_Witness ==
    \E p \in Procs :
        /\ req[p].op = "create" /\ pc[p] = "done" /\ resp[p].status = 400
        /\ Get(req[p].custom_html).filename = TxtName
        /\ urls # << >>

\* --------------------------------------------------------------------- C8

\* p handles a create that has returned 200.
CreateServed(p) ==
    req[p].op = "create" /\ pc[p] = "done" /\ resp[p].status = 200

\* The record carries the inputs of the request, and no click.
CarriesInputs(record, request) ==
    /\ record.redirect_url = request.redirect_url
    /\ record.discord_webhook = request.discord_webhook
    /\ record.click_count = 0

\* C8: a successful create persists one record, appended to the Link store,
\* and returns that record; its redirect_url and discord_webhook are the
\* request's inputs and its click_count is 0.
C8_CreateStoresInputs ==
    /\ [][ \A p \in Procs :
             (pc[p] = "insert" /\ pc'[p] # "insert") =>
                /\ LinksOf(req[p].rid) = {}
                /\ urls' = Append(urls, loc[p].url_record)
                /\ CarriesInputs(urls'[Len(urls')], req[p]) ]_vars
    /\ [] \A p \in Procs :
             CreateServed(p) =>
                /\ resp[p].body = loc[p].url_record
                /\ CarriesInputs(resp[p].body, req[p])
                /\ Cardinality(LinksOf(req[p].rid)) <= 1

\* A create with an upload has returned 200 and its record is in the store.
C8_Witness ==
    \E p \in Procs :
        /\ CreateServed(p)
        /\ ~IsNone(req[p].custom_html)
        /\ \E i \in LinksOf(req[p].rid) : urls[i] = resp[p].body

\* --------------------------------------------------------------------- C9

\* C9: a resolve whose lookup found the code returns 200 with the page rendered
\* from the record it looked up, whatever the geolocation service and the
\* webhook answered (success, an exception, a non-success status); two resolves
\* of one Link return the same status and body.
C9_SamePageWhateverTheAnswers ==
    \A p \in Procs :
        ResolveServed(p) =>
            /\ resp[p].status = 200
            /\ resp[p].body = Render(loc[p].url_record)
            /\ \A q \in Procs :
                  ( /\ ResolveServed(q)
                    /\ loc[q].url_record.id = loc[p].url_record.id ) =>
                        resp[q] = resp[p]

\* A resolve of a Link that carries custom markup is served with both outbound
\* calls raising.
C9_Witness ==
    \E p \in Procs :
        /\ ResolveServed(p)
        /\ loc[p].geo_answer.kind = "exception"
        /\ loc[p].post_answer.kind = "exception"
        /\ HasCustomHtml(loc[p].url_record)
        /\ resp[p] = [status |-> 200, body |-> Render(loc[p].url_record)]

\* -------------------------------------------------------------------- C10

\* pat occurs in s at position i.
OccursAt(s, pat, i) ==
    /\ i >= 1
    /\ i + Len(pat) - 1 <= Len(s)
    /\ SubSeq(s, i, i + Len(pat) - 1) = pat

\* s without the chunks of the script.
WithoutScript(s, script) ==
    SelectSeq(s, LAMBDA e : \A k \in 1..Len(script) : e # script[k])

\* The page is the markup with the script for redirect_url right before every
\* closing-body marker, a marker right after every script, and nothing else
\* changed.
SplicedBeforeMarkers(page, markup, redirect_url) ==
    LET script == RedirectScript(redirect_url) IN
    /\ WithoutScript(page, script) = markup
    /\ \A i \in 1..Len(page) :
          OccursAt(page, BodyClose, i) => OccursAt(page, script, i - Len(script))
    /\ \A i \in 1..Len(page) :
          OccursAt(page, script, i) => OccursAt(page, BodyClose, i + Len(script))

ScriptsIn(page, redirect_url) ==
    Cardinality({ i \in 1..Len(page) :
                    OccursAt(page, RedirectScript(redirect_url), i) })

\* p has served a Link whose custom markup contains a closing-body marker.
ServedMarkup(p) ==
    /\ ResolveServed(p)
    /\ HasCustomHtml(loc[p].url_record)
    /\ Occurrences(Get(loc[p].url_record.custom_html), BodyClose) >= 1

\* C10 as stated (refuted): for a Link whose custom markup contains "</body>",
\* the page is the markup with exactly one redirect script, placed right before
\* that marker and pointing at redirect_url, and nothing else changed.
C10_AsStated ==
    \A p \in Procs :
        ServedMarkup(p) =>
            /\ SplicedBeforeMarkers(resp[p].body,
                                    Get(loc[p].url_record.custom_html),
                                    loc[p].url_record.redirect_url)
            /\ ScriptsIn(resp[p].body, loc[p].url_record.redirect_url) = 1

\* C10, amended: for a Link whose custom markup contains "</body>", the page is
\* the markup with one redirect script, pointing at redirect_url, placed right
\* before every closing-body marker it contains (exactly one script when the
\* marker occurs once), and nothing else changed.
C10_ScriptBeforeEveryMarker ==
    \A p \in Procs :
        ServedMarkup(p) =>
            /\ SplicedBeforeMarkers(resp[p].body,
                                    Get(loc[p].url_record.custom_html),
                                    loc[p].url_record.redirect_url)
            /\ ScriptsIn(resp[p].body, loc[p].url_record.redirect_url) =
                  Occurrences(Get(loc[p].url_record.custom_html), BodyClose)

\* A page was served for the markup with two markers: it carries two scripts.
C10_Witness ==
    \E p \in Procs :
        /\ ServedMarkup(p)
        /\ Get(loc[p].url_record.custom_html) = TwoMarkerMarkup
        /\ ScriptsIn(resp[p].body, loc[p].url_record.redirect_url) = 2

\* -------------------------------------------------------------------- C11

\* The chunks of a script that sends the browser to redirect_url after delay.
TimedRedirect(redirect_url, delay) ==
    << "<script>", "setTimeout(() => {", "window.location.href = ''",
       redirect_url, "'';", "}, ", delay, ");", "</script>" >>

\* The positions of page where pat occurs.
PositionsOf(page, pat) == { i \in DOMAIN page : OccursAt(page, pat, i) }

\* p has served a resolve of a Link that carries no custom markup.
ServedDefault(p) ==
    ResolveServed(p) /\ ~HasCustomHtml(loc[p].url_record)

\* C11: a resolve of a Link with no custom markup returns 200 with the default
\* loading page; the page has exactly one script element, and that element is
\* the redirect to the redirect_url of the record read at lookup after 3000 ms.
C11_DefaultPageRedirects ==
    \A p \in Procs :
        ServedDefault(p) =>
            LET page == resp[p].body IN
            /\ resp[p].status = 200
            /\ \E i \in DOMAIN page : page[i] =
                  "<div class=''loading''><div class=''spinner''></div><h1>Loading...</h1></div>"
            /\ Cardinality(PositionsOf(page, << "<script>" >>)) = 1
            /\ PositionsOf(page, TimedRedirect(loc[p].url_record.redirect_url, "3000"))
                  = PositionsOf(page, << "<script>" >>)

\* A Link whose uploaded file was empty is resolved: the default page is served,
\* with its one redirect.
C11_Witness ==
    \E p \in Procs :
        /\ ServedDefault(p)
        /\ loc[p].url_record.custom_html = Some(<< >>)
        /\ Cardinality(PositionsOf(resp[p].body,
              TimedRedirect(loc[p].url_record.redirect_url, "3000"))) = 1

\* -------------------------------------------------------------------- C12

\* ip is the first comma-separated entry of header, the blanks around it left
\* out: header is blanks, ip, blanks, and then ends or goes on with a comma.
IsFirstEntry(ip, header) ==
    \E i \in 1..Len(header) + 1, j \in 0..Len(header) :
        /\ j >= i - 1
        /\ ip = SubSeq(header, i, j)
        /\ \A k \in 1..i - 1 : header[k] = " "
        /\ \A k \in i..j : header[k] # ","
        /\ j >= i => header[i] # " " /\ header[j] # " "
        /\ \E e \in j..Len(header) :
              /\ \A k \in j + 1..e : header[k] = " "
              /\ e = Len(header) \/ header[e + 1] = ","

\* C12: the origin address a resolve works with, and writes to its Visit row,
\* is the first comma-separated entry of x-forwarded-for (blanks around it
\* trimmed) when that header is present; otherwise the value of x-real-ip when
\* that header is present; otherwise the peer address.
C12_OriginAddress ==
    \A p \in Procs :
        ResolveFound(p) =>
            LET ip == loc[p].client_ip IN
            /\ ~IsNone(req[p].xff) => IsFirstEntry(ip, Get(req[p].xff))
            /\ IsNone(req[p].xff) /\ ~IsNone(req[p].xrealip) =>
                  ip = Get(req[p].xrealip)
            /\ IsNone(req[p].xff) /\ IsNone(req[p].xrealip) => ip = req[p].peer
            /\ \A i \in RowsOf(req[p].rid) : visitors[i].ip_address = ip

\* A resolve that carried both headers is served: its row has the first entry
\* of x-forwarded-for, which is neither the x-real-ip value nor the peer.
C12_Witness ==
    \E p \in Procs :
        /\ ResolveServed(p)
        /\ ~IsNone(req[p].xff) /\ ~IsNone(req[p].xrealip)
        /\ \E i \in RowsOf(req[p].rid) :
              /\ visitors[i].ip_address = << "203.0.113.7" >>
              /\ visitors[i].ip_address # Get(req[p].xrealip)
              /\ visitors[i].ip_address # req[p].peer

\* -------------------------------------------------------------------- C13

\* The visit notification p has sent, if any.
VisitNotifications(p) ==
    { k \in DOMAIN calls[p] :
        calls[p][k].method = "POST" /\ calls[p][k].embed.title = "New URL Visit" }

\* The value of the field of this name in an embed.
FieldValues(embed, name) ==
    { embed.fields[k].value :
        k \in { n \in DOMAIN embed.fields : embed.fields[n].name = name } }

\* The client-agent field as described: "Unknown" without header, the first
\* 100 characters and an ellipsis for a longer agent, else the agent.
DescribedAgentField(header) ==
    IF IsNone(header) THEN << "Unknown" >>
    ELSE IF Len(Get(header)) > UserAgentFieldLimit
    THEN SubSeq(Get(header), 1, UserAgentFieldLimit) \o << "..." >>
    ELSE Get(header)

\* C13: in the visit notification of a resolve the User Agent field is the
\* first 100 characters of the agent and an ellipsis when the agent is longer,
\* the agent itself when it is not, and "Unknown" when the request had no
\* user-agent header.
C13_AgentField ==
    \A p \in Procs :
        req[p].op = "resolve" =>
            \A k \in VisitNotifications(p) :
                FieldValues(calls[p][k].embed, "User Agent")
                    = { DescribedAgentField(req[p].user_agent) }

\* The same for the requests that carry a user-agent header.
AgentFieldOfPresentAgent ==
    \A p \in Procs :
        req[p].op = "resolve" /\ ~IsNone(req[p].user_agent) =>
            \A k \in VisitNotifications(p) :
                FieldValues(calls[p][k].embed, "User Agent")
                    = { DescribedAgentField(req[p].user_agent) }

\* A notification with a truncated agent has been sent.
TruncatedAgentSent ==
    \E p \in Procs :
        /\ req[p].op = "resolve"
        /\ ~IsNone(req[p].user_agent)
        /\ Len(Get(req[p].user_agent)) > UserAgentFieldLimit
        /\ VisitNotifications(p) # {}

\* -------------------------------------------------------------------- C14

CodesIn(coll) == { coll[i].short_code : i \in DOMAIN coll }

\* C14: the list a GET /api/urls returns carries the short codes of exactly the
\* Links that are in the store when it reads, however many they are.
C14_ListReturnsAll ==
    [][ \A p \in Procs :
          (Accepted(p) /\ req'[p].op = "list") =>
              /\ resp'[p].status = 200
              /\ CodesIn(resp'[p].body) = CodesIn(urls) ]_vars

\* The same for the stores of at most ListLimit Links.
ListReturnsAllUpToLimit ==
    [][ \A p \in Procs :
          (Accepted(p) /\ req'[p].op = "list" /\ Len(urls) <= ListLimit) =>
              /\ resp'[p].status = 200
              /\ resp'[p].body = urls ]_vars

\* -------------------------------------------------------------------- C15

\* The positions of a resolve after its lookup, in the order of the steps:
\* before the geolocation lookup, before the Visit row write, before the
\* counter increment, before the notification, and returned.
ResolveOrder == << "geolocate", "record", "count", "notify", "done" >>

\* The methods of the outbound calls p has made, in order.
MethodsOf(p) == [k \in DOMAIN calls[p] |-> calls[p][k].method]

\* What a resolve that passed its lookup has done at each position: nothing is
\* returned before the end; the geolocation GET is made before the row is
\* written, with the origin address resolved before; the row is written before
\* the counter update and the notification POST, and is there when the page is
\* returned.
DoneSoFar(p) ==
    /\ pc[p] # "done" => resp[p] = NoResponse
    /\ pc[p] = "geolocate" =>
          /\ calls[p] = << >> /\ RowsOf(req[p].rid) = {}
          /\ loc[p].client_ip = ClientIp(req[p])
    /\ pc[p] = "record" =>
          /\ MethodsOf(p) = << "GET" >> /\ RowsOf(req[p].rid) = {}
          /\ calls[p][1].url = GeoUrl(loc[p].client_ip)
    /\ pc[p] \in { "count", "notify" } =>
          MethodsOf(p) = << "GET" >> /\ Cardinality(RowsOf(req[p].rid)) = 1
    /\ pc[p] = "done" =>
          /\ MethodsOf(p) = << "GET", "POST" >>
          /\ Cardinality(RowsOf(req[p].rid)) = 1
          /\ resp[p].body = Render(loc[p].url_record)

\* A step of the resolve p handles takes it to the next position; the step
\* from "count" is its counter update and no other step of it writes to the
\* Link table.
NextInOrder(p) ==
    /\ \E k \in 1..Len(ResolveOrder) - 1 :
          pc[p] = ResolveOrder[k] /\ pc'[p] = ResolveOrder[k + 1]
    /\ pc[p] = "count" => urls' = update_one_inc(urls, loc[p].short_code)
    /\ pc[p] # "count" => urls' = urls

\* C15: within one resolve the steps come in the order lookup, origin address,
\* geolocation lookup, Visit row write, counter increment, notification,
\* render; the Visit row is written before the page is returned.
C15_StepOrder ==
    /\ [](\A p \in Procs : ResolveFound(p) => DoneSoFar(p))
    /\ [][ \A p \in Procs :
              (ResolveFound(p) /\ ~Accepted(p) /\ pc'[p] # pc[p]) =>
                  NextInOrder(p) ]_vars

\* A resolve has returned its page: its row is written and its two outbound
\* calls were made, the geolocation GET first.
C15_Witness ==
    \E p \in Procs :
        /\ ResolveServed(p)
        /\ MethodsOf(p) = << "GET", "POST" >>
        /\ Cardinality(RowsOf(req[p].rid)) = 1
        /\ resp[p].status = 200

\* -------------------------------------------------------------------- C16

\* p handles a create that has returned after its creation notification.
CreateNotified(p) ==
    req[p].op = "create" /\ pc[p] = "done" /\ calls[p] # << >>

\* C16: a create that passed validation and inserted its Link returns 200 with
\* that Link whatever the creation notification was answered (success, a
\* non-success status, an exception); the notification step changes neither
\* table.
C16_CreateWhateverTheAnswer ==
    /\ [](\A p \in Procs :
            CreateNotified(p) =>
                /\ Len(calls[p]) = 1
                /\ resp[p] = [status |-> 200, body |-> loc[p].url_record]
                /\ loc[p].url_record =
                      URLRecord(req[p].rid, loc[p].short_code,
                                req[p].redirect_url, req[p].discord_webhook,
                                loc[p].url_record.custom_html))
    /\ [][ \A p \in Procs :
              (req[p].op = "create" /\ pc[p] = "announce" /\ pc'[p] # pc[p]) =>
                  /\ urls' = urls /\ visitors' = visitors
                  /\ pc'[p] = "done" ]_vars

\* A create whose notification raised has returned 200 with its Link, which
\* is in the store as returned.
C16_Witness ==
    \E p \in Procs :
        /\ CreateNotified(p)
        /\ loc[p].post_answer.kind = "exception"
        /\ resp[p].status = 200
        /\ \E i \in DOMAIN urls : urls[i] = resp[p].body

\* A create whose notification was answered with a non-success status has
\* returned 200 with its Link.
CreateServedAfterRefusal ==
    \E p \in Procs :
        /\ CreateNotified(p)
        /\ loc[p].post_answer.kind = "response"
        /\ loc[p].post_answer.status_code # 204
        /\ resp[p].status = 200

\* -------------------------------------------------------------------- C17

\* The 62 alphanumeric characters.
Alphanumeric ==
    { "a", "b", "c", "d", "e", "f", "g", "h", "i", "j", "k", "l", "m",
      "n", "o", "p", "q", "r", "s", "t", "u", "v", "w", "x", "y", "z" }
    \cup
    { "A", "B", "C", "D", "E", "F", "G", "H", "I", "J", "K", "L", "M",
      "N", "O", "P", "Q", "R", "S", "T", "U", "V", "W", "X", "Y", "Z" }
    \cup { "0", "1", "2", "3", "4", "5", "6", "7", "8", "9" }

WellShaped(short_code) ==
    /\ Len(short_code) = 8
    /\ \A i \in DOMAIN short_code : short_code[i] \in Alphanumeric

\* C17: generate_short_code() draws from exactly the 62 alphanumeric
\* characters, every code it returns has length 8 and alphanumeric characters
\* only, and so has the candidate code of every create in flight and the code
\* of every Link in the store.
C17_CodeShape ==
    /\ { chars[k] : k \in DOMAIN chars } = Alphanumeric
    /\ Cardinality(Alphanumeric) = 62
    /\ \A short_code \in generate_short_code(DefaultCodeLength) :
          WellShaped(short_code)
    /\ \A p \in Procs :
          req[p].op = "create" => WellShaped(loc[p].short_code)
    /\ \A i \in DOMAIN urls : WellShaped(urls[i].short_code)

\* Two Links with different generated codes are in the store, one of them
\* assigned on a second draw.
C17_Witness ==
    \E i, j \in DOMAIN urls :
        /\ urls[i].short_code # urls[j].short_code
        /\ workload = "concurrent"

\* -------------------------------------------------------------------- C18

\* C18: a resolve that has begun ends with a response (the page, or a failure
\* status), also when the geolocation service and the webhook endpoint never
\* answer.
C18_ResolveEnds ==
    \A p \in Procs :
        (req[p].op = "resolve" /\ ~Free(p))
            ~> (pc[p] = "done" /\ resp[p].status \in { 200, 404, 500 })

\* A resolve has returned its page although neither endpoint answered.
C18_Witness ==
    \E p \in Procs :
        /\ ResolveServed(p)
        /\ loc[p].geo_answer = Silent
        /\ loc[p].post_answer = Silent
        /\ resp[p].status = 200

\* -------------------------------------------------------------------- C19

\* Requests, and so creates, run one at a time.
OneAtATime == workload # "concurrent"

\* C19: when creates run one at a time, the code a create inserts is the code
\* of no Link that is in the store at that moment, so the codes in the store
\* are pairwise different.
C19_FreshCodeWhenSequential ==
    /\ [](OneAtATime =>
            \A i, j \in DOMAIN urls :
                urls[i].short_code = urls[j].short_code => i = j)
    /\ [][ \A p \in Procs :
              ( /\ OneAtATime
                /\ req[p].op = "create"
                /\ pc[p] = "insert" /\ pc'[p] # pc[p] ) =>
                  /\ loc[p].short_code \notin CodesIn(urls)
                  /\ urls' = Append(urls, loc[p].url_record)
                  /\ loc[p].url_record.short_code = loc[p].short_code ]_vars

\* A create whose first candidate was taken has drawn again and inserted its
\* Link, next to the Link that held the first candidate.
C19_Witness ==
    \E p \in Procs :
        /\ OneAtATime
        /\ req[p].op = "create" /\ pc[p] = "announce"
        /\ "redrawn" \in DOMAIN loc[p]
        /\ Len(urls) > 1
        /\ \E i \in LinksOf(req[p].rid) :
              \A j \in DOMAIN urls \ { i } :
                  urls[j].short_code # urls[i].short_code

\* -------------------------------------------------------------------- C20

\* The click_count of the Link with this document id in a collection.
ClickCounts(coll, id) ==
    { coll[i].click_count : i \in { n \in DOMAIN coll : coll[n].id = id } }

\* C20: the click_count of a Link is never negative; it is 0 when the Link
\* enters the store; no step lowers it, and the only step that changes it is
\* the counter update of a resolve.
C20_ClickCountMonotone ==
    /\ [](\A i \in DOMAIN urls : urls[i].click_count >= 0)
    /\ [][ \A j \in DOMAIN urls' :
              LET before == ClickCounts(urls, urls'[j].id) IN
              /\ before = {} => urls'[j].click_count = 0
              /\ \A c \in before :
                    /\ urls'[j].click_count >= c
                    /\ urls'[j].click_count # c =>
                          \E p \in Procs :
                              /\ Counts(p) /\ req[p].op = "resolve"
                              /\ urls'[j].short_code = loc[p].short_code ]_vars

\* A Link has been clicked twice, next to a Link that has not been clicked.
C20_Witness ==
    \E i, j \in DOMAIN urls :
        /\ urls[i].click_count = 2
        /\ urls[j].click_count = 0

\* ------------------------------------------------------------------- C21

\* The step accepts a delete request.
DeleteStep == \E p \in Procs : Accepted(p) /\ req'[p].op = "delete"

\* A delete of p returned 200 and a Visit row still carries the deleted code.
DeleteLeftRows(p) ==
    /\ pc[p] = "done"
    /\ req[p].op = "delete"
    /\ resp[p].status = 200
    /\ \E i \in DOMAIN visitors : visitors[i].short_code = req[p].short_code

\* C21: the Visit table is append-only.  Every step leaves each existing Visit
\* row in place and unchanged (the table after the step starts with the table
\* before it), and a delete of a Link leaves the whole table as it was, the
\* rows that carry the deleted short code included.
C21_VisitsAppendOnly ==
    [][ /\ Len(visitors') >= Len(visitors)
        /\ SubSeq(visitors', 1, Len(visitors)) = visitors
        /\ DeleteStep => visitors' = visitors ]_vars

\* A Link that was resolved has been deleted: its Visit row is still there, and
\* no Link carries its code any more.
C21_Witness ==
    \E p \in Procs :
        /\ DeleteLeftRows(p)
        /\ Matches(urls, req[p].short_code) = {}

\* ------------------------------------------------------------------- C22

\* The POSTs among the outbound calls of the request p handles.
PostsOf(p) == { k \in DOMAIN calls[p] : calls[p][k].method = "POST" }

\* The visit notification of p got no answer of success.
NotificationFailed(p) ==
    /\ ResolveServed(p)
    /\ \/ loc[p].post_answer.kind = "exception"
       \/ /\ loc[p].post_answer.kind = "response"
          /\ loc[p].post_answer.status_code # 204

\* C22: a resolve that passed lookup and has returned made exactly one POST,
\* addressed to the discord_webhook of the record its lookup read, whether the
\* attempt succeeded or failed; before its notification step it has made none,
\* and a resolve that ended with 404 made no outbound call at all.
C22_OneNotificationAttempt ==
    \A p \in Procs :
        req[p].op = "resolve" =>
            /\ ResolveServed(p) =>
                  /\ Cardinality(PostsOf(p)) = 1
                  /\ \A k \in PostsOf(p) :
                        calls[p][k].url = loc[p].url_record.discord_webhook
            /\ pc[p] \in { "geolocate", "record", "count", "notify" } =>
                  PostsOf(p) = {}
            /\ (pc[p] = "done" /\ resp[p].status = 404) => calls[p] = << >>

\* A resolve of a Link created with the second notification target has
\* returned after an attempt that failed.
C22_Witness ==
    \E p \in Procs :
        /\ NotificationFailed(p)
        /\ loc[p].url_record.discord_webhook # BasicForm.discord_webhook
        /\ Cardinality(PostsOf(p)) = 1

\* ------------------------------------------------------------------- C23

\* The geolocation lookup of this answer failed: no response (exception,
\* timeout), a status other than 200, a body that is not JSON, or the answer of
\* failure of the service.
LookupFailed(answer) ==
    \/ answer.kind \in { "exception", "silent" }
    \/ /\ answer.kind = "response"
       /\ \/ answer.status_code # 200
          \/ IsNone(answer.json)
          \/ DictGet(Get(answer.json), "status", "success") = "fail"

\* The embed carries the location and ISP fields.
CarriesLocation(embed) ==
    /\ FieldValues(embed, "Location") # {}
    /\ FieldValues(embed, "ISP") # {}

\* The row and the notification of the resolve p has served go with the
\* outcome of its lookup.
GeolocationAsOutcome(p) ==
    /\ \A i \in RowsOf(req[p].rid) :
          IsNone(visitors[i].geolocation) <=> LookupFailed(loc[p].geo_answer)
    /\ \A k \in VisitNotifications(p) :
          CarriesLocation(calls[p][k].embed) <=> ~LookupFailed(loc[p].geo_answer)

\* C23: for every resolve that passed lookup and has returned, the geolocation
\* of its Visit row is absent exactly when the geolocation lookup failed, and
\* its notification carries the location and ISP fields exactly when the
\* lookup succeeded.
C23_GeolocationAsOutcome ==
    \A p \in Procs : ResolveServed(p) => GeolocationAsOutcome(p)

\* What the code keeps: the row's geolocation is absent exactly when
\* get_ip_geolocation returned None, and the fields are in the notification
\* exactly when it returned an object.
GeolocationAsReturned ==
    \A p \in Procs :
        ResolveServed(p) =>
            /\ \A i \in RowsOf(req[p].rid) :
                  /\ visitors[i].geolocation = loc[p].geo_data
                  /\ IsNone(loc[p].geo_data) <=>
                        IsNone(get_ip_geolocation(client_get(loc[p].geo_answer)).value)
            /\ \A k \in VisitNotifications(p) :
                  CarriesLocation(calls[p][k].embed) <=> ~IsNone(loc[p].geo_data)

\* ------------------------------------------------------------------- C24

\* C24: the custom_html of every stored Link is absent or a non-empty text.
C24_NoEmptyMarkup ==
    \A i \in DOMAIN urls :
        IsNone(urls[i].custom_html) \/ Get(urls[i].custom_html) # << >>

\* ------------------------------------------------------------------- C25

\* The store operation that failed in the request p handles, if one did.
FailedAt(p) ==
    IF "failed_step" \in DOMAIN loc[p] THEN loc[p].failed_step ELSE "none"

\* What the request p handles has left behind when a store operation of it
\* failed: a 5xx response and nothing of the steps after the failed one.
EndedAtFailure(p) ==
    /\ pc[p] = "done"
    /\ resp[p].status \in 500..599
    /\ FailedAt(p) = "find_one" =>
          calls[p] = << >> /\ RowsOf(req[p].rid) = {} /\ LinksOf(req[p].rid) = {}
    /\ FailedAt(p) = "find_code" =>
          calls[p] = << >> /\ LinksOf(req[p].rid) = {}
    /\ FailedAt(p) = "insert" =>
          calls[p] = << >> /\ LinksOf(req[p].rid) = {}
    /\ FailedAt(p) = "record" =>
          RowsOf(req[p].rid) = {} /\ PostsOf(p) = {}
    /\ FailedAt(p) = "count" => PostsOf(p) = {}

\* C25: when a store read or write of a create or a resolve fails, the request
\* ends with a 5xx response and none of its later steps runs: the failing step
\* and every step until the worker takes its next request leave the Links
\* (their counters included), the Visit rows and the outbound calls of the
\* request as they were; after a failed Visit write there is no row, no
\* increment and no notification, after a failed counter update no
\* notification, after a failed Link insert no Link and no creation
\* notification.
C25_StoreFailureEndsRequest ==
    /\ [](\A p \in Procs : FailedAt(p) # "none" => EndedAtFailure(p))
    /\ [][ \A p \in Procs :
             (FailedAt(p)' # "none" /\ req'[p] = req[p]) =>
                /\ urls' = urls
                /\ visitors' = visitors
                /\ calls'[p] = calls[p] ]_vars

\* The Visit write of a resolve failed after its geolocation call: the Link
\* it looked up is in the store with the counter it had.
C25_Witness ==
    \E p \in Procs :
        /\ FailedAt(p) = "record"
        /\ calls[p] # << >>
        /\ \E i \in LinksOf(loc[p].url_record.id) :
              urls[i].click_count = loc[p].url_record.click_count

\* ------------------------------------------------------------------- C26

\* C26: in every state the click_count of each Link in the store is at most
\* the number of Visit rows that carry its short code.
C26_ClicksAtMostVisits ==
    \A i \in DOMAIN urls : urls[i].click_count <= VisitsOf(urls[i].short_code)

\* Overlapping resolves have made the two numbers differ: a Link that was
\* counted once has more rows than clicks, one of them written by a resolve
\* whose counter update is still to run.
C26_Witness ==
    \E i \in DOMAIN urls :
        /\ urls[i].click_count = 1
        /\ VisitsOf(urls[i].short_code) > 1
        /\ AboutToCount(urls[i].short_code) > 0

\* ------------------------------------------------------------------- C27

\* C27: the counter update of a resolve changes no Link record other than the
\* one its own lookup returned.
C27_IncrementOnlyOnLookedUpLink ==
    [][ \A p \in Procs :
          Counts(p) =>
             \A i \in DOMAIN urls :
                urls'[i] # urls[i] => urls[i].id = loc[p].url_record.id ]_vars

\* ------------------------------------------------------------------- C28

\* p has served a Link whose custom markup is non-empty and contains no
\* closing-body marker.
ServedMarkupWithoutMarker(p) ==
    /\ ResolveServed(p)
    /\ HasCustomHtml(loc[p].url_record)
    /\ Occurrences(Get(loc[p].url_record.custom_html), BodyClose) = 0

====
